---- MODULE Spec2Model ----
(***************************************************************************)
(* Model of AgilentB2902A.run_measurement                                  *)
(* (Beamtimes/2025/2025_07-23899/McNeill_23899_2025_InAir_GatingControl.py)*)
(*                                                                         *)
(* The timed acquisition loop is modelled statement by statement: every    *)
(* socket operation (sendall, recv), every read of the wall clock, every   *)
(* read of self.stoptrigger and every sleep is a step of its own, so that  *)
(* the external actor that writes self.stoptrigger can act between any two *)
(* of them.  Time is counted in integer ticks.  The wall clock never goes  *)
(* backwards; it advances while the program sleeps and, by a bounded       *)
(* latency, between two consecutive reads of time.time().                  *)
(***************************************************************************)
EXTENDS Integers, Sequences, FiniteSets, TLC

\* ------------------------------------------------------------------ bounds
\* Largest wall-clock value explored.
MaxClock == 3
\* Largest number of samples one run may append.
MaxSamples == 2
\* Largest time that passes between two consecutive clock reads, sleeps apart.
MaxLatency == 1
\* Largest turn_on_time passed to run_measurement.
MaxOnTime == 1
\* Largest turn_off_time_meas passed to run_measurement.
MaxOffTime == 1
\* Largest meas_interval passed to run_measurement (the smallest is -1).
MaxInterval == 1
\* Number of calls of run_measurement on the one instance.
MaxRuns == 2
\* Largest number of samples of a run when several calls are explored.
RecallSamples == 1
\* Scenario A, in units of meas_interval: turn_on_time, the elapsed time at which
\* the external actor sets the flag, turn_off_time_meas.
ScenOnTime == 50
ScenStopAt == 100
ScenPostOff == 20
\* Largest number of samples of the loop of line 130 when termination is explored.
LivePre == 2

\* ---------------------------------------------------------------- constants
\* beep_up and beep_dn each send this many commands.
BeepCommands == 5

\* Response payloads of socket.recv: "1" is a payload float() parses; "" is
\* what recv returns, from then on, once the peer has closed the connection.
Responses == {"1", ""}

VARIABLES
    pc,                 \* position of the control flow in run_measurement
    loop,               \* "sampling": the loop of line 130; "postoff": that of line 155
    stoptrigger,        \* self.stoptrigger
    datapoints,         \* self.datapoints
    switched,           \* local switched
    t0, t_global, t, t1,            \* locals of run_measurement
    current,            \* local current of measure()
    eof,                \* the socket: recv has returned "" (the peer closed)
    turn_on_time, turn_off_time_meas, meas_interval,    \* arguments
    beep,               \* number of commands of the running beep_up/beep_dn already sent
    clock,              \* the wall clock, time.time()
    err,                \* the exception that ended the run, "none" if none
    runs,               \* number of calls of run_measurement so far
    mode,               \* which inputs and timings are explored, fixed by Init
    log,                \* history: the commands sent over the socket in this run
    onAt,               \* history: the elapsed time t of each switch-on command
    reads,              \* history: number of reads of self.stoptrigger in this run
    lastRead,           \* history: the value the last such read returned
    nPre,               \* history: number of samples appended by the loop of line 130
    stopSince,          \* history: when the flag, true ever since, was set
    nAtStop             \* history: nPre when the flag, true ever since, was set

vars == <<pc, loop, stoptrigger, datapoints, switched, t0, t_global, t, t1,
          current, eof, turn_on_time, turn_off_time_meas, meas_interval, beep,
          clock, err, runs, mode, log, onAt, reads, lastRead, nPre, stopSince, nAtStop>>

\* The variables of the program itself.
progVars == <<pc, loop, datapoints, switched, t0, t_global, t, t1, current, eof,
              turn_on_time, turn_off_time_meas, meas_interval, beep, err, runs,
              mode>>
histVars == <<log, onAt, reads, lastRead, nPre>>
locals == <<switched, t0, t_global, t, t1, current>>
args == <<turn_on_time, turn_off_time_meas, meas_interval>>

\* ------------------------------------------------------------ pure helpers
\* The bounds in force.  "free": any arguments within the bounds, the external
\* actor writing the flag at any moment.  "recall": the same over several calls,
\* with shorter runs.  "scenario": the arguments and timings of scenario A, a
\* sleep lasting exactly meas_interval = 1 and no time passing otherwise.  "live":
\* valid arguments, time passing in the sleeps only, the loop of line 130 bounded
\* in its number of iterations and the clock and the sample count wide enough
\* never to hold the run back.
LiveSampleCap == LivePre + MaxOffTime + 1
LiveClockCap == LiveSampleCap * MaxInterval
Latency == IF mode \in {"scenario", "live"} THEN 0 ELSE MaxLatency
ClockCap ==
    CASE mode = "scenario" -> ScenStopAt + ScenPostOff + 2
      [] mode = "live" -> LiveClockCap
      [] OTHER -> MaxClock
SampleCap ==
    CASE mode = "scenario" -> ScenStopAt + ScenPostOff + 2
      [] mode = "live" -> LiveSampleCap
      [] mode = "recall" -> RecallSamples
      [] OTHER -> MaxSamples
OnTimes == IF mode = "scenario" THEN {ScenOnTime} ELSE 0..MaxOnTime
OffTimes == IF mode = "scenario" THEN {ScenPostOff} ELSE 0..MaxOffTime
Intervals ==
    CASE mode = "scenario" -> {1}
      [] mode = "live" -> 1..MaxInterval
      [] OTHER -> (-1)..MaxInterval

\* The values time.time() may return when the clock last stood at c.
Advance(c) == {n \in c..(c + Latency) : n <= ClockCap}

\* Mutants of line 130: the loop goes on until the switch-on has happened; the
\* loop has a time-based exit.
LoopCondUntilSwitched(stop) == ~stop \/ ~switched
LoopCondTimed(stop) == ~stop /\ t <= turn_on_time
\* Mutant of line 130: a stop request is latched, a flag set and cleared again
\* between two tests still ends the loop.
LoopCondLatched(stop) == ~stop /\ stopSince # "pulse"

\* line 130: while not self.stoptrigger
LoopCond(stop) == ~stop

\* lines 133, 153, 158: t = t_global - t0
Elapsed(tg, tz) == tg - tz

\* Mutants of line 135: the latch is not tested; the comparison is strict.
SwitchCondNoLatch(sw, tt, ton) == tt >= ton
SwitchCondStrict(sw, tt, ton) == ~sw /\ tt > ton

\* line 135: if not switched and t >= turn_on_time
SwitchCond(sw, tt, ton) == ~sw /\ tt >= ton

\* Mutant of line 155: the comparison is not strict.
PostOffCondInclusive(tt, tt1, d) == tt <= tt1 + d

\* line 155: while t < t1 + turn_off_time_meas
PostOffCond(tt, tt1, d) == tt < tt1 + d

\* line 142: the sample the first loop appends, (t_global, current, voltage)
Sample(tg, tt, cur, volt) == <<tg, cur, volt>>

\* Mutant of line 160: the elapsed time t is recorded in place of t_global.
PostSampleElapsed(tg, tt, cur, volt) == <<tt, cur, volt>>

\* line 160: the sample the post-off loop appends, (t_global, current, voltage)
PostSample(tg, tt, cur, volt) == <<tg, cur, volt>>

\* float() of a response payload; the float is written as Python prints it
Parses(r) == r # ""
FloatOf(r) == IF r = "1" THEN "1.0" ELSE "nan"

\* line 164: np.array(self.datapoints, dtype=float), row by row
ToArray(dp) == [i \in 1..Len(dp) |-> <<dp[i][1], FloatOf(dp[i][2]), FloatOf(dp[i][3])>>]
Convertible(dp) == \A i \in 1..Len(dp) : Parses(dp[i][2]) /\ Parses(dp[i][3])

\* line 49: the payloads socket.recv may return (in scenario A the instrument
\* answers every query)
Recv(closed) ==
    IF closed THEN {""} ELSE IF mode = "scenario" THEN {"1"} ELSE Responses

\* Positions at which the next statement is a socket operation.
SendPcs == {"on", "beep_up", "curr_send", "volt_send", "off", "beep_dn"}
RecvPcs == {"curr_recv", "volt_recv"}
\* Positions inside a loop: its head, its body, its sleep.
InLoopPcs == {"head", "time", "on", "beep_up", "curr_send", "curr_recv", "volt_send",
              "volt_recv", "sleep"}
\* Positions after the loop of line 130 has been left.
AfterLoopPcs == {"off", "beep_dn", "toff", "post_head", "post_time", "final", "done"}

Count(s, c) == Cardinality({i \in 1..Len(s) : s[i] = c})

\* ------------------------------------------------------------------- Init
\* The state after __init__ (line 21: self.stoptrigger = False).
InitIn(m) ==
    /\ mode = m
    /\ pc = "idle" /\ loop = "sampling"
    /\ stoptrigger = FALSE
    /\ datapoints = <<>>
    /\ switched = FALSE
    /\ t0 = 0 /\ t_global = 0 /\ t = 0 /\ t1 = 0
    /\ current = "" /\ eof = FALSE
    /\ turn_on_time = 0 /\ turn_off_time_meas = 0 /\ meas_interval = 0
    /\ beep = 0
    /\ clock = 0
    /\ err = "none"
    /\ runs = 0
    /\ log = <<>> /\ onAt = <<>> /\ reads = 0 /\ lastRead = FALSE /\ nPre = 0
    /\ stopSince = "none" /\ nAtStop = 0

Init == InitIn("free")

\* ------------------------------------------------------ the external actor
\* Whether some iteration of the loop of line 130 has computed t >= turn_on_time
\* and entered the branch of line 135.  The last disjunct is the run whose
\* sendall of line 136 raised: it was aborted in an iteration whose loop-head
\* check read the flag as false, before switched was set, with t >= turn_on_time.
ObservedOn ==
    \/ switched
    \/ pc \in {"on", "beep_up"}
    \/ onAt # <<>>
    \/ /\ pc = "aborted" /\ loop = "sampling" /\ reads >= 1 /\ ~lastRead
       /\ t >= turn_on_time

\* The external actor writes self.stoptrigger = True.  stopSince records where
\* the run stood: "window" between the loop-head check and the clock read of an
\* iteration, "early" elsewhere before any t >= turn_on_time was computed ("call":
\* the flag was true when run_measurement was called).
SetStop ==
    /\ ~stoptrigger
    /\ stoptrigger' = TRUE
    /\ stopSince' = IF pc \in {"final", "done", "aborted"} \/ loop = "postoff"
                       \/ pc \in AfterLoopPcs \/ ObservedOn
                    THEN "late"
                    ELSE IF pc = "time" THEN "window" ELSE "early"
    /\ nAtStop' = nPre
    /\ UNCHANGED <<progVars, histVars, clock>>

\* The external actor writes self.stoptrigger = False.  stopSince becomes "pulse"
\* when the flag was set after a loop-head check and is cleared before the next.
ClearStop ==
    /\ stoptrigger
    /\ stoptrigger' = FALSE
    /\ stopSince' = IF pc \in InLoopPcs /\ loop = "sampling" /\ reads >= 1
                    THEN "pulse" ELSE "none"
    /\ nAtStop' = 0
    /\ UNCHANGED <<progVars, histVars, clock>>

\* ---------------------------------------------------------- run_measurement
\* lines 118-129: the call; t0 = time.time(); self.datapoints = []; switched = False
Start ==
    /\ \E ton \in OnTimes, d \in OffTimes, mi \in Intervals :
          /\ turn_on_time' = ton
          /\ turn_off_time_meas' = d
          /\ meas_interval' = mi
    /\ \E now \in Advance(clock) : clock' = now /\ t0' = now
    /\ datapoints' = <<>>
    /\ switched' = FALSE
    /\ t_global' = 0 /\ t' = 0 /\ t1' = 0 /\ current' = ""
    /\ beep' = 0
    /\ pc' = "head" /\ loop' = "sampling"
    /\ err' = "none"
    /\ runs' = runs + 1
    /\ log' = <<>> /\ onAt' = <<>> /\ reads' = 0 /\ lastRead' = FALSE /\ nPre' = 0
    /\ stopSince' = IF stoptrigger THEN "call" ELSE "none"
    /\ nAtStop' = 0
    /\ UNCHANGED <<stoptrigger, eof, mode>>

\* The first call of run_measurement on the instance.
Call == pc = "idle" /\ Start

\* A further call on the same instance, after a run has returned.
Recall == pc = "done" /\ runs < MaxRuns /\ Start

\* Mutant of line 130: the loop tests the value of the flag it read one
\* iteration earlier.
LoopHeadStale ==
    /\ pc = "head"
    /\ (mode = "live" /\ ~stoptrigger) => nPre < LivePre
    /\ reads' = reads + 1
    /\ lastRead' = stoptrigger
    /\ pc' = IF LoopCond(lastRead) THEN "time" ELSE "off"
    /\ UNCHANGED <<loop, stoptrigger, datapoints, eof, locals, args, mode, beep, clock,
                   err, runs, log, onAt, nPre, stopSince, nAtStop>>

\* line 130: while not self.stoptrigger
LoopHead ==
    /\ pc = "head"
    /\ (mode = "live" /\ ~stoptrigger) => nPre < LivePre
    /\ reads' = reads + 1
    /\ lastRead' = stoptrigger
    /\ pc' = IF LoopCond(stoptrigger) THEN "time" ELSE "off"
    /\ UNCHANGED <<loop, stoptrigger, datapoints, eof, locals, args, mode, beep, clock, err,
                   runs, log, onAt, nPre, stopSince, nAtStop>>

\* lines 132-135: t_global = time.time(); t = t_global - t0; the switch-on test
ReadTime ==
    /\ pc = "time"
    /\ Len(datapoints) < SampleCap
    /\ \E now \in Advance(clock) :
          /\ clock' = now
          /\ t_global' = now
          /\ t' = Elapsed(now, t0)
          /\ pc' = IF SwitchCond(switched, Elapsed(now, t0), turn_on_time)
                   THEN "on" ELSE "curr_send"
    /\ UNCHANGED <<loop, stoptrigger, datapoints, eof, switched, t0, t1, current, args, mode,
                   beep, err, runs, histVars, stopSince, nAtStop>>

\* line 136: self.write(f":sour:volt {turn_on_voltage}")
SwitchOn ==
    /\ pc = "on"
    /\ log' = Append(log, "on")
    /\ onAt' = Append(onAt, t)
    /\ beep' = 0
    /\ pc' = "beep_up"
    /\ UNCHANGED <<loop, stoptrigger, datapoints, eof, locals, args, mode, clock, err, runs,
                   reads, lastRead, nPre, stopSince, nAtStop>>

\* lines 138-139 (56-61): self.beep_up(), one command per step; switched = True
BeepUp ==
    /\ pc = "beep_up"
    /\ log' = Append(log, "beep")
    /\ IF beep + 1 < BeepCommands
       THEN beep' = beep + 1 /\ UNCHANGED <<pc, switched>>
       ELSE beep' = 0 /\ switched' = TRUE /\ pc' = "curr_send"
    /\ UNCHANGED <<loop, stoptrigger, datapoints, eof, t0, t_global, t, t1, current, args, mode,
                   clock, err, runs, onAt, reads, lastRead, nPre, stopSince, nAtStop>>

\* lines 114, 48: the write of query(":meas:curr? (@1)")
CurrSend ==
    /\ pc = "curr_send"
    /\ log' = Append(log, "curr?")
    /\ pc' = "curr_recv"
    /\ UNCHANGED <<loop, stoptrigger, datapoints, eof, locals, args, mode, beep, clock, err,
                   runs, onAt, reads, lastRead, nPre, stopSince, nAtStop>>

\* lines 114, 49-50: the recv of query(":meas:curr? (@1)")
CurrRecv ==
    /\ pc = "curr_recv"
    /\ \E r \in Recv(eof) : current' = r /\ eof' = (r = "")
    /\ pc' = "volt_send"
    /\ UNCHANGED <<loop, stoptrigger, datapoints, switched, t0, t_global, t, t1,
                   args, mode, beep, clock, err, runs, histVars, stopSince, nAtStop>>

\* lines 115, 48: the write of query(":meas:volt? (@1)")
VoltSend ==
    /\ pc = "volt_send"
    /\ log' = Append(log, "volt?")
    /\ pc' = "volt_recv"
    /\ UNCHANGED <<loop, stoptrigger, datapoints, eof, locals, args, mode, beep, clock, err,
                   runs, onAt, reads, lastRead, nPre, stopSince, nAtStop>>

\* lines 115-116, 49-50, 142/160: the recv of query(":meas:volt? (@1)") and
\* self.datapoints.append((t_global, current, voltage))
VoltRecv ==
    /\ pc = "volt_recv"
    /\ \E r \in Recv(eof) :
          /\ datapoints' = Append(datapoints,
                                   IF loop = "sampling"
                                   THEN Sample(t_global, t, current, r)
                                   ELSE PostSample(t_global, t, current, r))
          /\ eof' = (r = "")
    /\ nPre' = IF loop = "sampling" THEN nPre + 1 ELSE nPre
    /\ pc' = "sleep"
    /\ UNCHANGED <<loop, stoptrigger, locals, args, mode, beep, clock, err, runs,
                   log, onAt, reads, lastRead, stopSince, nAtStop>>

\* lines 145, 162: time.sleep(meas_interval); a negative length raises ValueError
Sleep ==
    /\ pc = "sleep"
    /\ IF meas_interval < 0
       THEN /\ pc' = "aborted" /\ err' = "ValueError"
            /\ UNCHANGED clock
       ELSE /\ clock + meas_interval <= ClockCap
            /\ clock' = clock + meas_interval
            /\ pc' = IF loop = "sampling" THEN "head" ELSE "post_head"
            /\ UNCHANGED err
    /\ UNCHANGED <<loop, stoptrigger, datapoints, eof, locals, args, mode, beep, runs,
                   histVars, stopSince, nAtStop>>

\* Mutant of line 149: the switch-off command is sent only after a switch-on.
SwitchOffIfSwitched ==
    /\ pc = "off"
    /\ log' = IF switched THEN Append(log, "off") ELSE log
    /\ beep' = 0
    /\ pc' = "beep_dn"
    /\ UNCHANGED <<loop, stoptrigger, datapoints, eof, locals, args, mode, clock, err, runs,
                   onAt, reads, lastRead, nPre, stopSince, nAtStop>>

\* line 149: self.write(f":sour:volt {turn_off_voltage}")
SwitchOff ==
    /\ pc = "off"
    /\ log' = Append(log, "off")
    /\ beep' = 0
    /\ pc' = "beep_dn"
    /\ UNCHANGED <<loop, stoptrigger, datapoints, eof, locals, args, mode, clock, err, runs,
                   onAt, reads, lastRead, nPre, stopSince, nAtStop>>

\* lines 150 (63-68): self.beep_dn(), one command per step
BeepDn ==
    /\ pc = "beep_dn"
    /\ log' = Append(log, "beep")
    /\ IF beep + 1 < BeepCommands
       THEN beep' = beep + 1 /\ UNCHANGED pc
       ELSE beep' = 0 /\ pc' = "toff"
    /\ UNCHANGED <<loop, stoptrigger, datapoints, eof, locals, args, mode, clock, err, runs,
                   onAt, reads, lastRead, nPre, stopSince, nAtStop>>

\* lines 152-154: t_global = time.time(); t = t_global - t0; t1 = t
ReadOffTime ==
    /\ pc = "toff"
    /\ \E now \in Advance(clock) :
          /\ clock' = now
          /\ t_global' = now
          /\ t' = Elapsed(now, t0)
          /\ t1' = Elapsed(now, t0)
    /\ loop' = "postoff"
    /\ pc' = "post_head"
    /\ UNCHANGED <<stoptrigger, datapoints, eof, switched, t0, current, args, mode, beep, err,
                   runs, histVars, stopSince, nAtStop>>

\* Mutant of line 155: the post-off loop polls self.stoptrigger too.
PostHeadPollsStop ==
    /\ pc = "post_head"
    /\ reads' = reads + 1
    /\ lastRead' = stoptrigger
    /\ pc' = IF PostOffCond(t, t1, turn_off_time_meas) /\ ~stoptrigger
             THEN "post_time" ELSE "final"
    /\ UNCHANGED <<loop, stoptrigger, datapoints, eof, locals, args, mode, beep, clock, err,
                   runs, log, onAt, nPre, stopSince, nAtStop>>

\* line 155: while t < t1 + turn_off_time_meas
PostHead ==
    /\ pc = "post_head"
    /\ pc' = IF PostOffCond(t, t1, turn_off_time_meas) THEN "post_time" ELSE "final"
    /\ UNCHANGED <<loop, stoptrigger, datapoints, eof, locals, args, mode, beep, clock, err,
                   runs, histVars, stopSince, nAtStop>>

\* Mutant of lines 157-158: the post-off loop repeats the switch-on test of the
\* first loop.
PostTimeWithSwitch ==
    /\ pc = "post_time"
    /\ Len(datapoints) < SampleCap
    /\ \E now \in Advance(clock) :
          /\ clock' = now
          /\ t_global' = now
          /\ t' = Elapsed(now, t0)
          /\ pc' = IF SwitchCond(switched, Elapsed(now, t0), turn_on_time)
                   THEN "on" ELSE "curr_send"
    /\ UNCHANGED <<loop, stoptrigger, datapoints, eof, switched, t0, t1, current, args,
                   mode, beep, err, runs, histVars, stopSince, nAtStop>>

\* Mutant of lines 157-158: the post-off loop does not refresh t.
PostTimeStale ==
    /\ pc = "post_time"
    /\ Len(datapoints) < SampleCap
    /\ \E now \in Advance(clock) :
          /\ clock' = now
          /\ t_global' = now
    /\ pc' = "curr_send"
    /\ UNCHANGED <<loop, stoptrigger, datapoints, eof, switched, t0, t, t1, current, args,
                   mode, beep, err, runs, histVars, stopSince, nAtStop>>

\* lines 157-158: t_global = time.time(); t = t_global - t0
PostTime ==
    /\ pc = "post_time"
    /\ Len(datapoints) < SampleCap
    /\ \E now \in Advance(clock) :
          /\ clock' = now
          /\ t_global' = now
          /\ t' = Elapsed(now, t0)
    /\ pc' = "curr_send"
    /\ UNCHANGED <<loop, stoptrigger, datapoints, eof, switched, t0, t1, current, args, mode,
                   beep, err, runs, histVars, stopSince, nAtStop>>

\* Mutant of lines 164-166: the run resets self.stoptrigger before it returns.
FinalizeClearsFlag ==
    /\ pc = "final"
    /\ IF Convertible(datapoints)
       THEN /\ datapoints' = ToArray(datapoints)
            /\ pc' = "done"
            /\ UNCHANGED err
       ELSE /\ pc' = "aborted" /\ err' = "ValueError"
            /\ UNCHANGED datapoints
    /\ stoptrigger' = FALSE
    /\ UNCHANGED <<loop, eof, locals, args, mode, beep, clock, runs, histVars,
                   stopSince, nAtStop>>

\* lines 164-166: self.datapoints = np.array(self.datapoints, dtype=float); return
Finalize ==
    /\ pc = "final"
    /\ IF Convertible(datapoints)
       THEN /\ datapoints' = ToArray(datapoints)
            /\ pc' = "done"
            /\ UNCHANGED err
       ELSE /\ pc' = "aborted" /\ err' = "ValueError"
            /\ UNCHANGED datapoints
    /\ UNCHANGED <<loop, stoptrigger, eof, locals, args, mode, beep, clock, runs, histVars,
                   stopSince, nAtStop>>

\* Mutant of lines 45, 49: the error of a measurement query is caught and the
\* iteration goes on without its sample.
LinkFailSwallowed ==
    /\ pc \in SendPcs \cup RecvPcs
    /\ pc' = IF pc \in {"curr_send", "curr_recv", "volt_send", "volt_recv"}
             THEN "sleep" ELSE "aborted"
    /\ err' = "ConnectionError"
    /\ UNCHANGED <<loop, stoptrigger, datapoints, eof, locals, args, mode, beep, clock, runs,
                   histVars, stopSince, nAtStop>>

\* lines 45, 49: socket.sendall or socket.recv raises; the exception leaves
\* run_measurement, which catches nothing.
LinkFail ==
    /\ pc \in SendPcs \cup RecvPcs
    /\ pc' = "aborted"
    /\ err' = "ConnectionError"
    /\ UNCHANGED <<loop, stoptrigger, datapoints, eof, locals, args, mode, beep, clock, runs,
                   histVars, stopSince, nAtStop>>

\* The statements of run_measurement, each running to its end.
Steps ==
    \/ Call \/ LoopHead \/ ReadTime \/ SwitchOn \/ BeepUp
    \/ CurrSend \/ CurrRecv \/ VoltSend \/ VoltRecv \/ Sleep
    \/ SwitchOff \/ BeepDn \/ ReadOffTime \/ PostHead \/ PostTime
    \/ Finalize

Run == Steps \/ LinkFail

\* One call of run_measurement, the external actor writing the flag at any moment.
Next == Run \/ SetStop \/ ClearStop

Spec == Init /\ [][Next]_vars

\* Several calls on the same instance.
NextRecall == Next \/ Recall

InitRecall == InitIn("recall")

SpecRecall == InitRecall /\ [][NextRecall]_vars

\* Scenario A: the external actor sets the flag while the elapsed time is
\* ScenStopAt, either before the loop-head check made at that time ("before") or
\* after it ("after"), and leaves it set.
SetStopAt ==
    /\ pc \in InLoopPcs /\ loop = "sampling"
    /\ Elapsed(clock, t0) = ScenStopAt
    /\ ~stoptrigger
    /\ stoptrigger' = TRUE
    /\ stopSince' = IF pc = "head" THEN "before" ELSE "after"
    /\ nAtStop' = nPre
    /\ UNCHANGED <<progVars, histVars, clock>>

NextA == Run \/ SetStopAt

InitA == InitIn("scenario")

SpecA == InitA /\ [][NextA]_vars

\* Termination: the statements of run_measurement keep being executed.
InitLive == InitIn("live")

SpecLive == InitLive /\ [][Next]_vars /\ WF_vars(Steps)

\* ------------------------------------------------------------------ claims
\* The arguments are valid: the times are non-negative and meas_interval > 0.
ValidArgs == turn_on_time >= 0 /\ turn_off_time_meas >= 0 /\ meas_interval > 0
\* Timestamps of the samples a pre-stop iteration of this run appended.
PreStamps == {datapoints[i][1] : i \in 1..nPre}
\* Some completed iteration of the loop of line 130 computed t >= turn_on_time.
PreObserved == \E g \in PreStamps : Elapsed(g, t0) >= turn_on_time
\* The place of the last command c in the log s, 0 if there is none.
LastIndex(s, c) ==
    LET I == {i \in 1..Len(s) : s[i] = c}
    IN  IF I = {} THEN 0 ELSE CHOOSE i \in I : \A j \in I : j <= i
\* Number of measurement queries among the first n commands of the log.
QueriesIn(n) == Cardinality({i \in 1..n : log[i] \in {"curr?", "volt?"}})
\* Number of measurement queries sent before the switch-off command.
QueriesBeforeOff == QueriesIn(LastIndex(log, "off"))

\* C1: in every run the switch-on command is issued at most once, and each time
\* it is issued the elapsed time t of that iteration is >= turn_on_time.
C1_SwitchOnAtMostOnce ==
    /\ Count(log, "on") <= 1
    /\ Len(onAt) = Count(log, "on")
    /\ \A i \in 1..Len(onAt) : onAt[i] >= turn_on_time

\* C1 witness: a completed run that sampled before the threshold, then switched on.
C1_Witness ==
    /\ pc = "done" /\ Count(log, "on") = 1 /\ turn_on_time > 0 /\ nPre >= 2
    /\ Elapsed(datapoints[1][1], t0) < turn_on_time

\* C2 as stated: a run with valid arguments that completes has issued the
\* switch-on command exactly once, and only at an elapsed time >= turn_on_time.
C2_Original ==
    (pc = "done" /\ ValidArgs) =>
        /\ Count(log, "on") = 1
        /\ \A i \in 1..Len(onAt) : onAt[i] >= turn_on_time

\* C2 amended: a run that completes has issued the switch-on command exactly
\* once if some pre-stop iteration observed an elapsed time >= turn_on_time and
\* not at all otherwise, and only at an elapsed time >= turn_on_time.
C2_SwitchOnOnceIfObserved ==
    pc = "done" =>
        /\ Count(log, "on") = (IF PreObserved THEN 1 ELSE 0)
        /\ \A i \in 1..Len(onAt) : onAt[i] >= turn_on_time

\* C2 witness: a completed run, stopped after sampling but before the threshold,
\* that has issued no switch-on command.
C2_Witness ==
    pc = "done" /\ nPre >= 1 /\ ~PreObserved /\ Count(log, "on") = 0

\* C3: in a run that has not aborted the switch-off command is issued exactly
\* once, as the first command after the first loop-head check that read the flag
\* as true: no read of the flag and no measurement query comes between them,
\* whether or not the switch-on happened.
C3_SwitchOffOnceOnStop ==
    pc # "aborted" =>
        /\ Count(log, "off") = (IF lastRead /\ pc # "off" THEN 1 ELSE 0)
        /\ (lastRead => reads = nPre + 1)
        /\ (lastRead /\ pc # "off" => QueriesBeforeOff = 2 * nPre)
        /\ (pc = "done" => lastRead)

\* C3 witness: a completed run stopped while still awaiting the switch-on.
C3_Witness ==
    pc = "done" /\ ~switched /\ nPre >= 1 /\ Count(log, "off") = 1

\* C4 as stated: if the flag was set, and has stayed set, since a moment before
\* the loop had observed an elapsed time >= turn_on_time, the run issues no
\* switch-on command and, once complete, has issued exactly one switch-off.
C4_Original ==
    (stopSince \in {"call", "early", "window"} /\ ValidArgs) =>
        /\ Count(log, "on") = 0
        /\ (pc = "done" => Count(log, "off") = 1)

\* C4 amended: the same, for a flag set before the loop-head check of the first
\* iteration that observes an elapsed time >= turn_on_time (a flag set between
\* that check and the clock read of the same iteration is excluded).
C4_StopBeforeThreshold ==
    stopSince \in {"call", "early"} =>
        /\ Count(log, "on") = 0
        /\ (pc = "done" => Count(log, "off") = 1)

\* C4 witness: a completed run whose flag was set mid-run before the threshold.
C4_Witness ==
    /\ stopSince = "early" /\ pc = "done" /\ nPre >= 1
    /\ Count(log, "on") = 0 /\ Count(log, "off") = 1

\* C5 as stated: the array a run with valid arguments returns has at least one row.
C5_Original == (pc = "done" /\ ValidArgs) => Len(datapoints) >= 1

\* C5 amended: the array a run returns has at least one row exactly when the
\* first loop-head check read the flag as false or turn_off_time_meas > 0.
C5_RowsUnlessStoppedAtStart ==
    pc = "done" => (Len(datapoints) >= 1 <=> (reads >= 2 \/ turn_off_time_meas > 0))

\* C5 witness: a run called with the flag already true that returns rows.
C5_Witness ==
    pc = "done" /\ reads = 1 /\ turn_off_time_meas > 0 /\ Len(datapoints) >= 1

\* C6: the timestamps of self.datapoints are non-decreasing in append order at
\* every point of the run and in the array returned.
C6_TimestampsNonDecreasing ==
    \A i \in 1..Len(datapoints) : \A j \in i..Len(datapoints) :
        datapoints[i][1] <= datapoints[j][1]

\* C6 witness: samples of both loops, the clock having advanced between them.
C6_Witness ==
    /\ loop = "postoff" /\ nPre >= 1 /\ Len(datapoints) > nPre /\ t0 > 0
    /\ datapoints[1][1] < datapoints[Len(datapoints)][1]

\* C7: once the switch-off command is issued the flag is never read again; the
\* post-off loop head decides from t, t1 and turn_off_time_meas alone; and the run
\* is past that loop only when the time elapsed since t1 is >= turn_off_time_meas.
C7_PostOffTimeBounded ==
    /\ [][(Count(log, "off") >= 1 /\ Count(log', "off") >= 1) => reads' = reads]_vars
    /\ [][(pc = "post_head" /\ pc' # pc) =>
              pc' = (IF t - t1 < turn_off_time_meas THEN "post_time" ELSE "final")]_vars
    /\ [](pc \in {"final", "done"} =>
              /\ t - t1 >= turn_off_time_meas
              /\ Elapsed(clock, t0) - t1 >= turn_off_time_meas)

\* C7 witness: a completed run with post-off samples whose flag was cleared after
\* the switch-off.
C7_Witness ==
    /\ pc = "done" /\ ~stoptrigger /\ turn_off_time_meas > 0
    /\ Len(datapoints) > nPre

\* C8: a run called with meas_interval <= 0 sends no command and does not return.
C8_RejectsBadInterval ==
    (runs >= 1 /\ meas_interval <= 0) => (log = <<>> /\ pc # "done")

\* C9: a socket error aborts the run: the run stands aborted with that error, and
\* from then on no command is sent, no sample appended and nothing returned.
C9_LinkFailureAborts ==
    /\ [](err = "ConnectionError" => pc = "aborted")
    /\ [][pc = "aborted" => (pc' = "aborted" /\ UNCHANGED <<log, datapoints, err>>)]_vars
    /\ [][err' = "ConnectionError" /\ err = "none" =>
              (pc \in SendPcs \cup RecvPcs /\ UNCHANGED <<log, datapoints>>)]_vars

\* C9 witness: a run aborted mid-sampling, the flag set, no switch-off sent.
C9_Witness ==
    /\ pc = "aborted" /\ err = "ConnectionError" /\ nPre >= 1
    /\ stoptrigger /\ Count(log, "off") = 0

\* C10: the loop of line 130 is left, the switch-off command issued and the run
\* ended only after a read of the flag returned true; as long as the reads return
\* false every read is followed by one sample, whatever the elapsed time.
C10_NoExitWithoutStop ==
    /\ (pc \in AfterLoopPcs \/ Count(log, "off") >= 1) => lastRead
    /\ (~lastRead /\ pc \in {"time", "on", "beep_up", "curr_send", "curr_recv",
                               "volt_send", "volt_recv"} => reads = nPre + 1)
    /\ (~lastRead /\ pc \in {"sleep", "head"} => reads = nPre)

\* C10 witness: still sampling, the flag false, after both turn_on_time and
\* turn_off_time_meas have long elapsed.
C10_Witness ==
    /\ pc = "sleep" /\ loop = "sampling" /\ ~stoptrigger /\ switched /\ nPre >= 2
    /\ t > turn_on_time + turn_off_time_meas

\* C11: no step of run_measurement writes self.stoptrigger: the flag changes only
\* in steps of the external actor, in which the run itself does nothing, so its
\* value is always the one last written by the actor (or by __init__).
C11_FlagOnlyRead ==
    [][stoptrigger' # stoptrigger => UNCHANGED <<progVars, histVars, clock>>]_vars

\* C11 witness: a run that read the flag as true and returned, the flag still true.
C11_Witness ==
    pc = "done" /\ stoptrigger /\ lastRead /\ nPre >= 1 /\ Len(datapoints) > nPre

\* Positions inside the body of a loop, before its sample is appended.
BodyPcs == {"time", "on", "beep_up", "curr_send", "curr_recv", "volt_send", "volt_recv"}

\* C14: setting the flag inside an iteration of the loop of line 130 does not cut
\* the iteration short: from any position of the body the run goes on through
\* both queries to the append and the sleep (a socket error apart), and while the
\* flag has stayed true at most one sample has been appended since it was set.
C14_CooperativeStop ==
    /\ [](stoptrigger /\ runs >= 1 => nPre - nAtStop <= 1)
    /\ [][(stoptrigger /\ loop = "sampling" /\ pc \in BodyPcs /\ pc' # pc) =>
              /\ pc' \in BodyPcs \cup {"sleep", "aborted"}
              /\ (pc' = "sleep" =>
                     /\ pc = "volt_recv"
                     /\ Len(datapoints') = Len(datapoints) + 1
                     /\ Count(log, "curr?") = Len(datapoints')
                     /\ Count(log, "volt?") = Len(datapoints'))]_vars
    /\ [][(stoptrigger /\ loop = "sampling" /\ pc = "sleep" /\ pc' # pc) =>
              pc' \in {"head", "aborted"}]_vars

\* C14 witness: the flag was set inside an iteration that followed an earlier
\* sample; that iteration appended its sample and the switch-off was then sent.
C14_Witness ==
    /\ pc = "beep_dn" /\ stoptrigger /\ nAtStop >= 1 /\ nPre = nAtStop + 1
    /\ Count(log, "off") = 1

\* Number of measurement queries sent before the switch-on command.
QueriesBeforeOn == QueriesIn(LastIndex(log, "on"))

\* C15: every iteration of the loop of line 130 appends exactly one sample, made
\* of one current and one voltage query, whether or not it issues the switch-on;
\* the switch-on command precedes the queries of its own iteration, so the
\* samples measured before it have elapsed time < turn_on_time and those measured
\* after it have elapsed time >= turn_on_time.
C15_OneSamplePerIteration ==
    /\ (pc \notin BodyPcs \cup {"aborted"} =>
            /\ Count(log, "curr?") = Len(datapoints)
            /\ Count(log, "volt?") = Len(datapoints))
    /\ (loop = "sampling" /\ pc \in {"sleep", "head"} /\ ~lastRead => reads = nPre)
    /\ (Count(log, "on") = 1 =>
            /\ QueriesBeforeOn % 2 = 0
            /\ \A i \in 1..Len(datapoints) :
                  IF 2 * i <= QueriesBeforeOn
                  THEN Elapsed(datapoints[i][1], t0) < turn_on_time
                  ELSE Elapsed(datapoints[i][1], t0) >= turn_on_time)
    /\ (Count(log, "on") = 0 =>
            \A i \in 1..nPre : Elapsed(datapoints[i][1], t0) < turn_on_time)

\* C15 witness: an iteration sampled before the switch-on, a later one issued the
\* switch-on and sampled after it.
C15_Witness ==
    /\ pc = "sleep" /\ loop = "sampling" /\ Count(log, "on") = 1
    /\ QueriesBeforeOn >= 2 /\ nPre > QueriesBeforeOn \div 2

\* The phase of the run, from where the control flow stands.
Phase ==
    IF pc = "done" THEN "STOPPED"
    ELSE IF pc = "aborted" THEN "ABORTED"
    ELSE IF loop = "postoff" \/ pc \in {"beep_dn", "toff"} THEN "OBSERVING_POST_OFF"
    ELSE IF switched \/ pc = "beep_up" THEN "SAMPLING_POST_SWITCH"
    ELSE "AWAITING_SWITCH"

\* The moves between phases the state machine allows.
PhaseMoves ==
    { <<"AWAITING_SWITCH", "SAMPLING_POST_SWITCH">>,
      <<"AWAITING_SWITCH", "OBSERVING_POST_OFF">>,
      <<"SAMPLING_POST_SWITCH", "OBSERVING_POST_OFF">>,
      <<"OBSERVING_POST_OFF", "STOPPED">> }

\* C16: the phase of a run changes only along AWAITING_SWITCH ->
\* SAMPLING_POST_SWITCH -> OBSERVING_POST_OFF -> STOPPED (or from AWAITING_SWITCH
\* straight to OBSERVING_POST_OFF), an abort apart, and no switch-on command
\* follows the switch-off command.
C16_PhasesOnlyForward ==
    /\ [][(Phase' # Phase /\ Phase' # "ABORTED") => <<Phase, Phase'>> \in PhaseMoves]_vars
    /\ [](\A i \in 1..Len(log) : \A j \in 1..Len(log) :
              (log[i] = "off" /\ log[j] = "on") => j < i)
    /\ [](Phase \in {"OBSERVING_POST_OFF", "STOPPED"} /\ ~switched =>
              Count(log, "on") = 0)

\* C16 witness: a run stopped while awaiting the switch-on, whose elapsed time
\* reached turn_on_time only in the post-off loop, returned without a switch-on.
C16_Witness ==
    /\ pc = "done" /\ ~switched /\ Count(log, "on") = 0 /\ Len(datapoints) > nPre
    /\ turn_on_time > 0
    /\ Elapsed(datapoints[Len(datapoints)][1], t0) >= turn_on_time

\* C17: t1 is read from the clock after the switch-off command was sent; every
\* post-off sample but the last has elapsed time < t1 + turn_off_time_meas, the
\* last one of a run past the loop has elapsed time >= t1 + turn_off_time_meas,
\* and with turn_off_time_meas = 0 no sample follows the switch-off command.
C17_PostOffWindow ==
    /\ [][(pc = "toff" /\ pc' = "post_head") =>
              /\ Count(log, "off") = 1
              /\ t1' = Elapsed(clock', t0)
              /\ t1' >= Elapsed(clock, t0)]_vars
    /\ [](loop = "postoff" =>
              \A i \in (nPre + 1)..(Len(datapoints) - 1) :
                  Elapsed(datapoints[i][1], t0) < t1 + turn_off_time_meas)
    /\ [](pc \in {"final", "done"} /\ Len(datapoints) > nPre =>
              Elapsed(datapoints[Len(datapoints)][1], t0) >= t1 + turn_off_time_meas)
    /\ [](turn_off_time_meas = 0 => Len(datapoints) = nPre)

\* C17 witness: a returned run with two post-off samples, the first inside the
\* window and the last at its end.
C17_Witness ==
    /\ pc = "done" /\ turn_off_time_meas > 0 /\ Len(datapoints) >= nPre + 2
    /\ Elapsed(datapoints[nPre + 1][1], t0) < t1 + turn_off_time_meas

\* C19: the flag is read once per iteration, at the loop head only, and by level:
\* after the flag was set and cleared again between two consecutive loop-head
\* checks, and for as long as it stays false, no read has returned true, no
\* switch-off command is sent, the run stays in the pre-stop phases and the next
\* loop-head check enters the body.
C19_PulseNotObserved ==
    /\ [][reads' # reads => (pc = "head" /\ reads' = reads + 1 /\ pc' # "head")]_vars
    /\ [](stopSince = "pulse" =>
              /\ ~stoptrigger /\ ~lastRead
              /\ Count(log, "off") = 0
              /\ pc \notin AfterLoopPcs
              /\ Phase \in {"AWAITING_SWITCH", "SAMPLING_POST_SWITCH", "ABORTED"})
    /\ [][(stopSince = "pulse" /\ pc = "head" /\ pc' # pc) => pc' = "time"]_vars

\* C19 witness: the run is still sampling after a set-and-clear of the flag that
\* followed its second loop-head check.
C19_Witness ==
    /\ stopSince = "pulse" /\ ~stoptrigger /\ pc = "sleep" /\ loop = "sampling"
    /\ reads >= 2 /\ nPre = reads

\* C18: a call of run_measurement made while the flag is true, the flag staying
\* true, appends no sample in the loop of line 130, sends no switch-on command
\* whatever turn_on_time is, and sends the switch-off command first; such is the
\* second call after a run that left the flag true.
C18_RecallWithFlagSet ==
    (runs >= 2 /\ stopSince = "call") =>
        /\ nPre = 0
        /\ Count(log, "on") = 0 /\ ~switched
        /\ (log # <<>> => log[1] = "off")
        /\ (reads >= 1 => (reads = 1 /\ lastRead))
        /\ pc \notin BodyPcs \cup {"sleep"} \/ loop = "postoff"

\* C18 witness: a second call with turn_on_time = 0 and the flag left true by
\* the first run has returned, the switch-off sent first and no switch-on.
C18_Witness ==
    /\ runs = 2 /\ stopSince = "call" /\ pc = "done" /\ turn_on_time = 0
    /\ log # <<>> /\ log[1] = "off" /\ Count(log, "on") = 0

\* The switch-off command is the last command sent: control stands just after it.
OffJustSent == pc = "beep_dn" /\ beep = 0

\* C12 as stated: in scenario A the switch-on command is issued in the iteration
\* whose elapsed time is ScenOnTime, the switch-off command is issued when the
\* elapsed time is ScenStopAt, and the finalized run has ScenStopAt + ScenPostOff
\* samples within a jitter of 2.
C12_Original ==
    /\ (onAt # <<>> => onAt = <<ScenOnTime>> /\ QueriesBeforeOn = 2 * ScenOnTime)
    /\ (OffJustSent => Elapsed(clock, t0) = ScenStopAt)
    /\ (pc = "done" =>
            /\ Count(log, "on") = 1
            /\ Len(datapoints) - (ScenStopAt + ScenPostOff) \in (-2)..2)

\* C12 amended: in scenario A the switch-on command is issued in the iteration
\* whose elapsed time is ScenOnTime; the switch-off command is issued when the
\* elapsed time is ScenStopAt if the flag was set before the loop-head check made
\* at that time, and one unit later if it was set after that check; the finalized
\* run has one sample per unit from 0 to that time plus ScenPostOff, both
\* included: ScenStopAt + ScenPostOff + 1 samples, or one more.
C12_ScenarioA ==
    LET tOff == IF stopSince = "before" THEN ScenStopAt ELSE ScenStopAt + 1
    IN  /\ (onAt # <<>> => onAt = <<ScenOnTime>> /\ QueriesBeforeOn = 2 * ScenOnTime)
        /\ (OffJustSent => Elapsed(clock, t0) = tOff /\ nPre = tOff)
        /\ (pc = "done" =>
                /\ Count(log, "on") = 1 /\ Count(log, "off") = 1
                /\ t1 = tOff
                /\ Len(datapoints) = tOff + ScenPostOff + 1
                /\ \A i \in 1..Len(datapoints) : datapoints[i][1] = t0 + i - 1
                /\ Len(datapoints) - (ScenStopAt + ScenPostOff) \in (-2)..2)

\* C12 witness: the run of scenario A whose flag was set after the loop-head
\* check made at elapsed time ScenStopAt has returned, with two samples more than
\* ScenStopAt + ScenPostOff.
C12_Witness ==
    /\ pc = "done" /\ stopSince = "after" /\ onAt = <<ScenOnTime>>
    /\ t1 = ScenStopAt + 1
    /\ Len(datapoints) = ScenStopAt + ScenPostOff + 2

\* The bounds on the clock and on the number of samples do not hold back a run
\* whose loop of line 130 makes at most LivePre iterations.
LiveUnbounded ==
    /\ (pc \in {"time", "post_time"} => Len(datapoints) < SampleCap)
    /\ (pc \in {"idle", "time", "post_time", "toff"} => clock + Latency <= ClockCap)
    /\ (pc = "sleep" => clock + meas_interval <= ClockCap)

\* The run has sent the switch-off command, left the post-off loop and returned
\* the array of its samples, every reading a number.
Stopped ==
    IF pc = "done"
    THEN /\ loop = "postoff" /\ Count(log, "off") = 1
         /\ \A i \in 1..Len(datapoints) : datapoints[i][2] = "1.0" /\ datapoints[i][3] = "1.0"
    ELSE FALSE

\* C13: if from some point on the flag stays true, every sleep advances the clock
\* (meas_interval >= 1) and every command is sent and answered with a reading (no
\* socket error, no closed connection), the run eventually has sent the
\* switch-off command, left the post-off loop and returned the finalized array,
\* whatever turn_off_time_meas >= 0 is; the bounds of the model play no part.
C13_EventuallyStopped ==
    /\ []LiveUnbounded
    /\ (<>[]stoptrigger /\ []~eof /\ [](err # "ConnectionError")) =>
           <>Stopped

\* C13 witness: a run whose flag was set after its first sample and has stayed
\* true has sent the switch-off, sampled through a post-off window of positive
\* length and returned.
C13_Witness ==
    /\ pc = "done" /\ stoptrigger /\ stopSince \in {"early", "window", "late"}
    /\ nAtStop >= 1 /\ turn_off_time_meas > 0 /\ Len(datapoints) > nPre
    /\ Count(log, "off") = 1

====
